---- MODULE Spec2Model ----
(***************************************************************************)
(* Model of the 7 MHz SSB transceiver controller                           *)
(* (firmware/7mhz_ssb_trx/7mhz_ssb_trx.ino): tuning state, EEPROM record,  *)
(* debounced inputs, synthesizer / transmit-enable / display outputs, and  *)
(* the setup() + loop() control flow.                                      *)
(*                                                                         *)
(* Widths: frequency and step_size are uint64_t, millis() is a 32-bit      *)
(* unsigned long.  Every value the model reaches is below 2^31 (the        *)
(* largest is the CLK0 command, 1,620,000,000), so the C arithmetic never  *)
(* wraps and is written here without a modulus.  The 32-bit narrowing of   *)
(* the saved frequency is modelled by the four bytes it is stored in.      *)
(***************************************************************************)
EXTENDS Integers, Sequences, FiniteSets, TLC

\* ---------------------------------------------------------------- bounds
MaxBoots == 2
MaxEvents == 3
MaxClock == 102

\* ------------------------------------------------------------- constants
IF_FREQ == 9000000
BFO_FREQ == 8998500
FREQ_MIN == 7000000
FREQ_MAX == 7200000
FREQ_DEFAULT == 7100000
STEP_10HZ == 10
STEP_100HZ == 100
STEP_1KHZ == 1000
STEP_10KHZ == 10000
EEPROM_FREQ_ADDR == 0
EEPROM_STEP_ADDR == 4
EEPROM_MAGIC_ADDR == 8
EEPROM_MAGIC_VALUE == 43605
STEP_INDEX_DEFAULT == 2
debounce_delay == 50
num_steps == 4

EEPROM_SIZE == EEPROM_MAGIC_ADDR + 2

step_sizes_Fine == <<5, STEP_100HZ, STEP_1KHZ, STEP_10KHZ>>

step_sizes == <<STEP_10HZ, STEP_100HZ, STEP_1KHZ, STEP_10KHZ>>

HIGH == TRUE

LOW == FALSE

DIR_NONE == "DIR_NONE"

DIR_CW == "DIR_CW"

DIR_CCW == "DIR_CCW"

VARIABLES
  pc,                     \* position in setup() / loop()
  frequency, step_size, step_index, tx_mode, display_update_needed,
  last_enc_sw_time, last_ptt_time,
  last_ptt_state, last_sw_state,      \* the static locals of the handlers
  eeprom,                 \* the persisted bytes, address -> 0..255
  tx_en,                  \* level of PIN_TX_EN
  clk0, clk1,             \* value last commanded to each channel, 0 = none
  clock,                  \* milliseconds since power-on (what millis() reads)
  io,                     \* outputs produced by the step just taken, each
                          \* <<kind, value>>
  shown,                  \* snapshot last rendered, <<>> = nothing yet
  nRender,                \* renders since power-on, counted up to 2
  changed,                \* frequency/step_size/tx_mode changed since last render
  evt,                    \* events accepted in the current loop iteration
  pttHist,                \* the last two accepted PTT events, oldest first
  swAccept,               \* clock at the last accepted StepCycle, -1 = none
  prevStep,               \* <<step_index, step_size>> before the last StepCycle
  saved,                  \* state handed to the last saveSettings, <<>> = none
  fault,                  \* peripheral whose initialisation failed, or "none"
  offFreq,                \* frequency when power was last removed, -1 = never
  tuned,                  \* <<frequency before, kind>> of the tick the latest
                          \* handleEncoder call applied, <<>> = none
  cut,                    \* <<frequency, step_index before, after>> of the
                          \* save that power loss interrupted, <<>> = none
  boots,                  \* power-ons so far
  events                  \* input events so far (ticks, PTT edges, presses)

vars == <<pc, frequency, step_size, step_index, tx_mode, display_update_needed,
          last_enc_sw_time, last_ptt_time, last_ptt_state, last_sw_state,
          eeprom, tx_en, clk0, clk1, clock, io, shown, nRender, changed,
          evt, pttHist, swAccept, prevStep, saved, fault, offFreq,
          tuned, cut, boots, events>>

\* ------------------------------------------------------- EEPROM encoding
\* EEPROM.put / EEPROM.get copy sizeof(T) bytes, least significant first
\* (AVR is little-endian).
Byte(v, k) == (v \div (256 ^ k)) % 256

PutBytes(mem, addr, n, v) ==
  [a \in DOMAIN mem |->
     IF a >= addr /\ a < addr + n THEN Byte(v, a - addr) ELSE mem[a]]

RECURSIVE GetBytes(_, _, _)
GetBytes(mem, addr, n) ==
  IF n = 0 THEN 0 ELSE mem[addr] + 256 * GetBytes(mem, addr + 1, n - 1)

Record(magic, freq, idx) ==
  PutBytes(PutBytes(PutBytes([a \in 0..(EEPROM_SIZE - 1) |-> 255],
                             EEPROM_FREQ_ADDR, 4, freq),
                    EEPROM_STEP_ADDR, 1, idx),
           EEPROM_MAGIC_ADDR, 2, magic)

saveSettingsUpTo_StepFirst(mem, f, idx, n) ==
  IF n = 0 THEN mem
  ELSE IF n = 1 THEN PutBytes(mem, EEPROM_STEP_ADDR, 1, idx)
  ELSE IF n = 2
    THEN PutBytes(PutBytes(mem, EEPROM_STEP_ADDR, 1, idx),
                  EEPROM_FREQ_ADDR, 4, f)
  ELSE PutBytes(PutBytes(PutBytes(mem, EEPROM_STEP_ADDR, 1, idx),
                         EEPROM_FREQ_ADDR, 4, f),
                EEPROM_MAGIC_ADDR, 2, EEPROM_MAGIC_VALUE)

\* The memory after the first n of the three EEPROM.put calls of saveSettings.
saveSettingsUpTo(mem, f, idx, n) ==
  IF n = 0 THEN mem
  ELSE IF n = 1 THEN PutBytes(mem, EEPROM_FREQ_ADDR, 4, f)
  ELSE IF n = 2
    THEN PutBytes(PutBytes(mem, EEPROM_FREQ_ADDR, 4, f),
                  EEPROM_STEP_ADDR, 1, idx)
  ELSE PutBytes(PutBytes(PutBytes(mem, EEPROM_FREQ_ADDR, 4, f),
                         EEPROM_STEP_ADDR, 1, idx),
                EEPROM_MAGIC_ADDR, 2, EEPROM_MAGIC_VALUE)

saveSettings_Overlap(mem, f, idx) ==
  PutBytes(PutBytes(PutBytes(mem, EEPROM_FREQ_ADDR, 4, f),
                    EEPROM_FREQ_ADDR + 3, 1, idx),
           EEPROM_MAGIC_ADDR, 2, EEPROM_MAGIC_VALUE)

saveSettings_NoFreq(mem, f, idx) ==
  PutBytes(PutBytes(mem, EEPROM_STEP_ADDR, 1, idx),
           EEPROM_MAGIC_ADDR, 2, EEPROM_MAGIC_VALUE)

saveSettings(mem, f, idx) ==
  PutBytes(PutBytes(PutBytes(mem, EEPROM_FREQ_ADDR, 4, f),
                    EEPROM_STEP_ADDR, 1, idx),
           EEPROM_MAGIC_ADDR, 2, EEPROM_MAGIC_VALUE)

loadSettings_AllOrNothing(mem, f, idx, ss) ==
  LET saved_freq == GetBytes(mem, EEPROM_FREQ_ADDR, 4)
      raw_index  == GetBytes(mem, EEPROM_STEP_ADDR, 1)
  IN IF /\ GetBytes(mem, EEPROM_MAGIC_ADDR, 2) = EEPROM_MAGIC_VALUE
        /\ saved_freq >= FREQ_MIN /\ saved_freq <= FREQ_MAX
        /\ raw_index < num_steps
     THEN [frequency |-> saved_freq, step_index |-> raw_index,
           step_size |-> step_sizes[raw_index + 1]]
     ELSE [frequency |-> f, step_index |-> idx, step_size |-> ss]

loadSettings_StaleStep(mem, f, idx, ss) ==
  IF GetBytes(mem, EEPROM_MAGIC_ADDR, 2) = EEPROM_MAGIC_VALUE
  THEN LET saved_freq == GetBytes(mem, EEPROM_FREQ_ADDR, 4)
           raw_index  == GetBytes(mem, EEPROM_STEP_ADDR, 1)
           idx2       == IF raw_index >= num_steps THEN STEP_INDEX_DEFAULT
                         ELSE raw_index
       IN [frequency  |-> IF saved_freq >= FREQ_MIN /\ saved_freq <= FREQ_MAX
                          THEN saved_freq ELSE f,
           step_index |-> idx2,
           step_size  |-> ss]
  ELSE [frequency |-> f, step_index |-> idx, step_size |-> ss]

loadSettings(mem, f, idx, ss) ==
  IF GetBytes(mem, EEPROM_MAGIC_ADDR, 2) = EEPROM_MAGIC_VALUE
  THEN LET saved_freq == GetBytes(mem, EEPROM_FREQ_ADDR, 4)
           raw_index  == GetBytes(mem, EEPROM_STEP_ADDR, 1)
           idx2       == IF raw_index >= num_steps THEN STEP_INDEX_DEFAULT
                         ELSE raw_index
       IN [frequency  |-> IF saved_freq >= FREQ_MIN /\ saved_freq <= FREQ_MAX
                          THEN saved_freq ELSE f,
           step_index |-> idx2,
           step_size  |-> step_sizes[idx2 + 1]]
  ELSE [frequency |-> f, step_index |-> idx, step_size |-> ss]

\* ------------------------------------------------------------ pure steps
TuneUp_Strict(f, s) == IF f + s < FREQ_MAX THEN f + s ELSE f

TuneUp_Double(f, s) == IF f + s <= FREQ_MAX THEN f + 2 * s ELSE f

TuneUp(f, s) == IF f + s <= FREQ_MAX THEN f + s ELSE f

TuneDown_NoGuard(f, s) == f - s

TuneDown_Margin(f, s) == IF f >= 2 * s + FREQ_MIN THEN f - s ELSE f

TuneDown(f, s) == IF f >= s + FREQ_MIN THEN f - s ELSE f

VfoCommand_NoOffset(f) == f * 100

VfoCommand_Khz(f) == ((f + IF_FREQ) \div 1000) * 1000 * 100

VfoCommand(f) == (f + IF_FREQ) * 100

BfoCommand == BFO_FREQ * 100

Debounced_AtLeast(now, last) == now - last >= debounce_delay

Debounced(now, last) == now - last > debounce_delay

NextStepIndex_Short(i) == (i + 1) % (num_steps - 1)

NextStepIndex(i) == (i + 1) % num_steps

StepCycle(i) ==
  [step_index |-> NextStepIndex(i), step_size |-> step_sizes[NextStepIndex(i) + 1]]

PttSwitches_Always(accepted, new_tx_mode, old_tx_mode) == accepted

PttSwitches(accepted, new_tx_mode, old_tx_mode) ==
  accepted /\ new_tx_mode # old_tx_mode

AfterDisplayBegin_FallThrough(ok) == "si5351"

AfterDisplayBegin(ok) == IF ok THEN "si5351" ELSE "halt"

TxEnLevel_Inverted(tx) == IF tx THEN LOW ELSE HIGH

TxEnLevel(tx) == IF tx THEN HIGH ELSE LOW

MarkDirty_Lost(hit, flag) == flag

MarkDirty(hit, flag) == hit \/ flag

Snapshot(f, s, tx) == <<f, s, tx>>

Kinds(out) == {out[i][1] : i \in DOMAIN out}

Values(out, kind) == {out[i][2] : i \in {j \in DOMAIN out : out[j][1] = kind}}

NoEvt == [enc |-> "none", ptt |-> "none", sw |-> "none"]

\* --------------------------------------------------------------- startup
\* Persisted bytes a device can hold at power-on: erased, written by an
\* earlier saveSettings, or anything else.
InitialRecords ==
  { [a \in 0..(EEPROM_SIZE - 1) |-> 255],
    Record(EEPROM_MAGIC_VALUE, 7199990, 1),
    Record(EEPROM_MAGIC_VALUE, FREQ_MAX, 3),
    Record(EEPROM_MAGIC_VALUE, FREQ_MIN, 0),
    Record(EEPROM_MAGIC_VALUE, 0, 3),
    Record(EEPROM_MAGIC_VALUE, FREQ_MAX + 1, 0),
    Record(EEPROM_MAGIC_VALUE, FREQ_MIN - 1, 4),
    Record(EEPROM_MAGIC_VALUE, 7050000, 255),
    Record(EEPROM_MAGIC_VALUE, 7100005, 2),
    Record(21930, 7050000, 1) }

Globals ==
  /\ frequency = FREQ_DEFAULT
  /\ step_size = STEP_1KHZ
  /\ step_index = STEP_INDEX_DEFAULT
  /\ tx_mode = FALSE
  /\ display_update_needed = TRUE
  /\ last_enc_sw_time = 0
  /\ last_ptt_time = 0
  /\ last_ptt_state = HIGH
  /\ last_sw_state = HIGH

Init ==
  /\ Globals
  /\ eeprom \in InitialRecords
  /\ pc = "setup"
  /\ tx_en = LOW
  /\ clk0 = 0
  /\ clk1 = 0
  /\ clock = 0
  /\ io = <<>>
  /\ shown = <<>>
  /\ nRender = 0
  /\ changed = FALSE
  /\ evt = NoEvt
  /\ pttHist = <<>>
  /\ swAccept = -1
  /\ prevStep = <<>>
  /\ saved = <<>>
  /\ fault = "none"
  /\ offFreq = -1
  /\ cut = <<>>
  /\ tuned = <<>>
  /\ boots = 1
  /\ events = 0

\* ------------------------------------------------------------- outputs
updateVFO_WrongChannel(f) == <<"CLK1", VfoCommand(f)>>

updateVFO(f) == <<"CLK0", VfoCommand(f)>>

updateDisplay(f, s, tx) == <<"RENDER", Snapshot(f, s, tx)>>

Elapsed == {0, 50, 51}

Last(n, sq) == IF Len(sq) <= n THEN sq ELSE SubSeq(sq, Len(sq) - n + 1, Len(sq))

Bookkeeping == <<boots, events>>

Tuning == <<frequency, step_size, step_index, tx_mode>>

Debounce == <<last_enc_sw_time, last_ptt_time, last_ptt_state, last_sw_state>>

History == <<pttHist, swAccept, prevStep, saved, fault, offFreq, cut>>

\* setup(), lines 117-136: pins, TX enable LOW, loadSettings().
setup_loadSettings ==
  /\ pc = "setup"
  /\ LET r == loadSettings(eeprom, frequency, step_index, step_size)
     IN /\ frequency' = r.frequency
        /\ step_index' = r.step_index
        /\ step_size' = r.step_size
  /\ tx_en' = LOW
  /\ io' = << <<"TX_EN", LOW>> >>
  /\ pc' = "display_begin"
  /\ UNCHANGED tuned
  /\ UNCHANGED <<tx_mode, display_update_needed, Debounce, eeprom, clk0, clk1,
                 clock, shown, nRender, changed, evt, History, Bookkeeping>>

\* setup(), lines 138-145: display.begin(); halt on failure.
setup_displayBegin ==
  /\ pc = "display_begin"
  /\ \E ok \in BOOLEAN :
       /\ pc' = AfterDisplayBegin(ok)
       /\ fault' = IF ok THEN fault ELSE "display"
  /\ io' = <<>>
  /\ UNCHANGED tuned
  /\ UNCHANGED <<Tuning, display_update_needed, Debounce, eeprom, tx_en, clk0,
                 clk1, clock, shown, nRender, changed, evt, pttHist, swAccept,
                 prevStep, saved, offFreq, cut, Bookkeeping>>

\* setupSi5351(): halt when the chip is absent, else command both channels.
setupSi5351 ==
  /\ pc = "si5351"
  /\ \E i2c_found \in BOOLEAN :
       IF i2c_found
       THEN /\ clk0' = VfoCommand(frequency)
            /\ clk1' = BfoCommand
            /\ io' = <<updateVFO(frequency), <<"CLK1", BfoCommand>> >>
            /\ pc' = "setup_display"
            /\ UNCHANGED fault
       ELSE /\ io' = <<>>
            /\ pc' = "halt"
            /\ fault' = "si5351"
            /\ UNCHANGED <<clk0, clk1>>
  /\ UNCHANGED tuned
  /\ UNCHANGED <<Tuning, display_update_needed, Debounce, eeprom, tx_en,
                 clock, shown, nRender, changed, evt, pttHist, swAccept,
                 prevStep, saved, offFreq, cut, Bookkeeping>>

\* setup(), lines 150-153: the initial updateDisplay().
setup_updateDisplay ==
  /\ pc = "setup_display"
  /\ io' = <<updateDisplay(frequency, step_size, tx_mode)>>
  /\ shown' = Snapshot(frequency, step_size, tx_mode)
  /\ nRender' = IF nRender < 2 THEN nRender + 1 ELSE nRender
  /\ changed' = FALSE
  /\ pc' = "ready"
  /\ UNCHANGED tuned
  /\ UNCHANGED <<Tuning, display_update_needed, Debounce, eeprom, tx_en, clk0,
                 clk1, clock, evt, History, Bookkeeping>>

handleEncoder_Debounced ==
  /\ pc \in {"ready", "enc"}
  /\ \E result \in {DIR_NONE, DIR_CW, DIR_CCW} :
       LET f2 == IF ~Debounced(clock, last_enc_sw_time) THEN frequency
                 ELSE IF result = DIR_CW THEN TuneUp(frequency, step_size)
                 ELSE IF result = DIR_CCW THEN TuneDown(frequency, step_size)
                 ELSE frequency
       IN /\ (result # DIR_NONE) => events < MaxEvents
          /\ events' = IF result # DIR_NONE THEN events + 1 ELSE events
          /\ frequency' = f2
          /\ IF f2 # frequency
             THEN /\ clk0' = VfoCommand(f2)
                  /\ io' = <<updateVFO(f2)>>
                  /\ changed' = TRUE
             ELSE /\ io' = <<>>
                  /\ UNCHANGED <<clk0, changed>>
          /\ display_update_needed' =
               MarkDirty(f2 # frequency, display_update_needed)
          /\ tuned' = IF f2 = frequency THEN <<>>
                       ELSE <<frequency,
                              IF result = DIR_CW THEN "TuneUp" ELSE "TuneDown">>
          /\ evt' = [enc |-> IF result = DIR_CW THEN "TuneUp"
                             ELSE IF result = DIR_CCW THEN "TuneDown"
                             ELSE "none",
                     ptt |-> "none", sw |-> "none"]
  /\ pc' = "ptt"
  /\ UNCHANGED <<step_size, step_index, tx_mode, Debounce, eeprom, tx_en, clk1,
                 clock, shown, nRender, History, boots>>

\* handleEncoder(): one result of encoder.process() per call.
handleEncoder ==
  /\ pc \in {"ready", "enc"}
  /\ \E result \in {DIR_NONE, DIR_CW, DIR_CCW} :
       LET f2 == IF result = DIR_CW THEN TuneUp(frequency, step_size)
                 ELSE IF result = DIR_CCW THEN TuneDown(frequency, step_size)
                 ELSE frequency
       IN /\ (result # DIR_NONE) => events < MaxEvents
          /\ events' = IF result # DIR_NONE THEN events + 1 ELSE events
          /\ frequency' = f2
          /\ IF f2 # frequency
             THEN /\ clk0' = VfoCommand(f2)
                  /\ io' = <<updateVFO(f2)>>
                  /\ changed' = TRUE
             ELSE /\ io' = <<>>
                  /\ UNCHANGED <<clk0, changed>>
          /\ display_update_needed' =
               MarkDirty(f2 # frequency, display_update_needed)
          /\ tuned' = IF f2 = frequency THEN <<>>
                       ELSE <<frequency,
                              IF result = DIR_CW THEN "TuneUp" ELSE "TuneDown">>
          /\ evt' = [enc |-> IF result = DIR_CW THEN "TuneUp"
                             ELSE IF result = DIR_CCW THEN "TuneDown"
                             ELSE "none",
                     ptt |-> "none", sw |-> "none"]
  /\ pc' = "ptt"
  /\ UNCHANGED <<step_size, step_index, tx_mode, Debounce, eeprom, tx_en, clk1,
                 clock, shown, nRender, History, boots>>

\* handlePTT(): the first millis() of an iteration; d is the time that has
\* passed since the previous iteration read the clock.  The two millis()
\* calls of one handler (test, then store) and the switch handler's calls in
\* the same iteration are taken within the same millisecond.
handlePTT ==
  /\ pc = "ptt"
  /\ \E d \in Elapsed, ptt_state \in BOOLEAN :
       LET now == clock + d
           edge == ptt_state # last_ptt_state
           accepted == edge /\ Debounced(now, last_ptt_time)
           new_tx_mode == (ptt_state = LOW)
           switched == PttSwitches(accepted, new_tx_mode, tx_mode)
           kind == IF new_tx_mode THEN "PttAsserted" ELSE "PttReleased"
       IN /\ now <= MaxClock
          /\ edge => events < MaxEvents
          /\ events' = IF edge THEN events + 1 ELSE events
          /\ clock' = now
          /\ last_ptt_time' = IF accepted THEN now ELSE last_ptt_time
          /\ last_ptt_state' = ptt_state
          /\ tx_mode' = IF switched THEN new_tx_mode ELSE tx_mode
          /\ tx_en' = IF switched THEN TxEnLevel(new_tx_mode) ELSE tx_en
          /\ io' = IF switched
                   THEN << <<"TX_EN", TxEnLevel(new_tx_mode)>> >>
                   ELSE <<>>
          /\ display_update_needed' = MarkDirty(switched, display_update_needed)
          /\ changed' = (tx_mode' # tx_mode \/ changed)
          /\ evt' = [evt EXCEPT !.ptt = IF accepted THEN kind ELSE "none"]
          /\ pttHist' = IF accepted THEN Last(2, Append(pttHist, kind))
                        ELSE pttHist
  /\ pc' = "sw"
  /\ UNCHANGED tuned
  /\ UNCHANGED <<frequency, step_size, step_index, last_enc_sw_time,
                 last_sw_state, eeprom, clk0, clk1, shown, nRender,
                 swAccept, prevStep, saved, fault, offFreq, cut, boots>>

handleEncoderSwitch_SharedStamp ==
  /\ pc = "sw"
  /\ \E sw_state \in BOOLEAN :
       LET now == clock
           accepted == /\ sw_state = LOW
                       /\ last_sw_state = HIGH
                       /\ Debounced(now, last_enc_sw_time)
           next == StepCycle(step_index)
           press == sw_state = LOW /\ last_sw_state = HIGH
       IN /\ press => events < MaxEvents
          /\ events' = IF press THEN events + 1 ELSE events
          /\ last_sw_state' = sw_state
          /\ IF accepted
             THEN /\ last_enc_sw_time' = now
                  /\ step_index' = next.step_index
                  /\ step_size' = next.step_size
                  /\ display_update_needed' = MarkDirty(TRUE, display_update_needed)
                  /\ changed' = TRUE
                  /\ eeprom' = saveSettings(eeprom, frequency, next.step_index)
                  /\ io' = << <<"EEPROM",
                                 <<frequency, next.step_index>> >> >>
                  /\ saved' = <<frequency, next.step_index, next.step_size>>
                  /\ swAccept' = now
                  /\ prevStep' = <<step_index, step_size>>
                  /\ evt' = [evt EXCEPT !.sw = "StepCycle"]
             ELSE /\ io' = <<>>
                  /\ evt' = [evt EXCEPT !.sw = IF press THEN "bounce" ELSE "none"]
                  /\ UNCHANGED <<last_enc_sw_time, step_index, step_size,
                                 display_update_needed, changed, eeprom, saved,
                                 swAccept, prevStep>>
  /\ pc' = "render"
  /\ last_ptt_time' = last_enc_sw_time'
  /\ UNCHANGED tuned
  /\ UNCHANGED <<frequency, tx_mode, last_ptt_state, tx_en,
                 clk0, clk1, clock, shown, nRender, pttHist, fault, offFreq,
                 cut, boots>>

handleEncoderSwitch_Retune ==
  /\ pc = "sw"
  /\ \E sw_state \in BOOLEAN :
       LET now == clock
           accepted == /\ sw_state = LOW
                       /\ last_sw_state = HIGH
                       /\ Debounced(now, last_enc_sw_time)
           next == StepCycle(step_index)
           press == sw_state = LOW /\ last_sw_state = HIGH
       IN /\ press => events < MaxEvents
          /\ events' = IF press THEN events + 1 ELSE events
          /\ last_sw_state' = sw_state
          /\ IF accepted
             THEN /\ last_enc_sw_time' = now
                  /\ step_index' = next.step_index
                  /\ step_size' = next.step_size
                  /\ display_update_needed' = MarkDirty(TRUE, display_update_needed)
                  /\ changed' = TRUE
                  /\ eeprom' = saveSettings(eeprom, frequency, next.step_index)
                  /\ io' = <<updateVFO(frequency),
                             <<"EEPROM",
                               <<frequency, next.step_index>> >> >>
                  /\ saved' = <<frequency, next.step_index, next.step_size>>
                  /\ swAccept' = now
                  /\ prevStep' = <<step_index, step_size>>
                  /\ evt' = [evt EXCEPT !.sw = "StepCycle"]
             ELSE /\ io' = <<>>
                  /\ evt' = [evt EXCEPT !.sw = IF press THEN "bounce" ELSE "none"]
                  /\ UNCHANGED <<last_enc_sw_time, step_index, step_size,
                                 display_update_needed, changed, eeprom, saved,
                                 swAccept, prevStep>>
  /\ pc' = "render"
  /\ UNCHANGED tuned
  /\ UNCHANGED <<frequency, tx_mode, last_ptt_time, last_ptt_state, tx_en,
                 clk0, clk1, clock, shown, nRender, pttHist, fault, offFreq,
                 cut, boots>>

\* handleEncoderSwitch(): StepCycle on a debounced falling edge, then save.
handleEncoderSwitch ==
  /\ pc = "sw"
  /\ \E sw_state \in BOOLEAN :
       LET now == clock
           accepted == /\ sw_state = LOW
                       /\ last_sw_state = HIGH
                       /\ Debounced(now, last_enc_sw_time)
           next == StepCycle(step_index)
           press == sw_state = LOW /\ last_sw_state = HIGH
       IN /\ press => events < MaxEvents
          /\ events' = IF press THEN events + 1 ELSE events
          /\ last_sw_state' = sw_state
          /\ IF accepted
             THEN /\ last_enc_sw_time' = now
                  /\ step_index' = next.step_index
                  /\ step_size' = next.step_size
                  /\ display_update_needed' = MarkDirty(TRUE, display_update_needed)
                  /\ changed' = TRUE
                  /\ eeprom' = saveSettings(eeprom, frequency, next.step_index)
                  /\ io' = << <<"EEPROM",
                                 <<frequency, next.step_index>> >> >>
                  /\ saved' = <<frequency, next.step_index, next.step_size>>
                  /\ swAccept' = now
                  /\ prevStep' = <<step_index, step_size>>
                  /\ evt' = [evt EXCEPT !.sw = "StepCycle"]
             ELSE /\ io' = <<>>
                  /\ evt' = [evt EXCEPT !.sw = IF press THEN "bounce" ELSE "none"]
                  /\ UNCHANGED <<last_enc_sw_time, step_index, step_size,
                                 display_update_needed, changed, eeprom, saved,
                                 swAccept, prevStep>>
  /\ pc' = "render"
  /\ UNCHANGED tuned
  /\ UNCHANGED <<frequency, tx_mode, last_ptt_time, last_ptt_state, tx_en,
                 clk0, clk1, clock, shown, nRender, pttHist, fault, offFreq,
                 cut, boots>>

\* handleEncoderSwitch() accepting a press, with power removed inside
\* saveSettings() after the first or the second of its three field writes.
saveSettings_powerLoss ==
  /\ pc = "sw"
  /\ boots < MaxBoots
  /\ events < MaxEvents
  /\ last_sw_state = HIGH
  /\ Debounced(clock, last_enc_sw_time)
  /\ \E n \in {1, 2} :
       LET next == StepCycle(step_index)
       IN /\ step_index' = next.step_index
          /\ step_size' = next.step_size
          /\ eeprom' = saveSettingsUpTo(eeprom, frequency, next.step_index, n)
          /\ cut' = <<frequency, step_index, next.step_index>>
  /\ events' = events + 1
  /\ last_sw_state' = LOW
  /\ last_enc_sw_time' = clock
  /\ display_update_needed' = MarkDirty(TRUE, display_update_needed)
  /\ changed' = TRUE
  /\ io' = <<>>
  /\ saved' = <<>>
  /\ swAccept' = clock
  /\ prevStep' = <<step_index, step_size>>
  /\ evt' = [evt EXCEPT !.sw = "StepCycle"]
  /\ pc' = "off"
  /\ UNCHANGED tuned
  /\ UNCHANGED <<frequency, tx_mode, last_ptt_time, last_ptt_state, tx_en,
                 clk0, clk1, clock, shown, nRender, pttHist, fault, offFreq,
                 boots>>

\* loop(), lines 164-167: render when the dirty flag is set, then clear it.
loop_render ==
  /\ pc = "render"
  /\ IF display_update_needed
     THEN /\ io' = <<updateDisplay(frequency, step_size, tx_mode)>>
          /\ shown' = Snapshot(frequency, step_size, tx_mode)
          /\ nRender' = IF nRender < 2 THEN nRender + 1 ELSE nRender
          /\ changed' = FALSE
     ELSE /\ io' = <<>>
          /\ UNCHANGED <<shown, nRender, changed>>
  /\ display_update_needed' = FALSE
  /\ pc' = "enc"
  /\ UNCHANGED tuned
  /\ UNCHANGED <<Tuning, Debounce, eeprom, tx_en, clk0, clk1, clock, evt,
                 History, boots, events>>

\* Power is removed and restored: RAM and peripherals reset, EEPROM survives.
powerCycle ==
  /\ boots < MaxBoots
  /\ pc \in {"ready", "enc", "halt", "off"}
  /\ boots' = boots + 1
  /\ frequency' = FREQ_DEFAULT
  /\ step_size' = STEP_1KHZ
  /\ step_index' = STEP_INDEX_DEFAULT
  /\ tx_mode' = FALSE
  /\ display_update_needed' = TRUE
  /\ last_enc_sw_time' = 0
  /\ last_ptt_time' = 0
  /\ last_ptt_state' = HIGH
  /\ last_sw_state' = HIGH
  /\ pc' = "setup"
  /\ tx_en' = LOW
  /\ clk0' = 0
  /\ clk1' = 0
  /\ clock' = 0
  /\ io' = <<>>
  /\ shown' = <<>>
  /\ nRender' = 0
  /\ changed' = FALSE
  /\ evt' = NoEvt
  /\ pttHist' = <<>>
  /\ fault' = "none"
  /\ offFreq' = frequency
  /\ cut' = IF pc = "off" THEN cut ELSE <<>>
  /\ tuned' = <<>>
  /\ swAccept' = -1
  /\ prevStep' = <<>>
  /\ UNCHANGED <<eeprom, saved, events>>

Next ==
  \/ setup_loadSettings
  \/ setup_displayBegin
  \/ setupSi5351
  \/ setup_updateDisplay
  \/ handleEncoder
  \/ handlePTT
  \/ handleEncoderSwitch
  \/ loop_render
  \/ saveSettings_powerLoss
  \/ powerCycle

Spec == Init /\ [][Next]_vars

\* A device whose EEPROM holds no valid record when it is first powered.
InitBlank ==
  /\ Init
  /\ GetBytes(eeprom, EEPROM_MAGIC_ADDR, 2) # EEPROM_MAGIC_VALUE

SpecBlank == InitBlank /\ [][Next]_vars

\* The same machine with the processor never stopping: each step of setup()
\* and each call of loop() that can run does run. Power cycles are not forced.
SpecFair ==
  /\ Spec
  /\ WF_vars(setup_loadSettings)
  /\ WF_vars(setup_displayBegin)
  /\ WF_vars(setupSi5351)
  /\ WF_vars(setup_updateDisplay)
  /\ WF_vars(handleEncoder)
  /\ WF_vars(handlePTT)
  /\ WF_vars(handleEncoderSwitch)
  /\ WF_vars(loop_render)

\* ================================================================ claims

InBand(f) == FREQ_MIN <= f /\ f <= FREQ_MAX

\* C1: after any startup and any sequence of events the frequency is within
\* [FREQ_MIN, FREQ_MAX] in every state; a TuneDown never takes it below
\* FREQ_MIN (where the unsigned subtraction would have wrapped).
C1_FrequencyInBand == InBand(frequency)

\* A TuneDown arrived at the lower band edge and was refused.
C1_Witness ==
  /\ pc = "ptt"
  /\ evt.enc = "TuneDown"
  /\ frequency = FREQ_MIN
  /\ io = <<>>

\* C2: TuneUp adds step_size when the sum is at most FREQ_MAX and otherwise
\* changes nothing; TuneDown subtracts step_size when the difference is at
\* least FREQ_MIN and otherwise changes nothing.
C2_TuneStep ==
  [][(pc \in {"ready", "enc"} /\ pc' = "ptt") =>
       /\ evt'.enc = "TuneUp" =>
            frequency' = IF frequency + step_size <= FREQ_MAX
                         THEN frequency + step_size ELSE frequency
       /\ evt'.enc = "TuneDown" =>
            frequency' = IF frequency - step_size >= FREQ_MIN
                         THEN frequency - step_size ELSE frequency
       /\ evt'.enc = "none" => frequency' = frequency]_vars

\* TuneUp at 7,200,000 with a 10 kHz step changed nothing.
C2_Witness ==
  /\ pc = "ptt"
  /\ evt.enc = "TuneUp"
  /\ frequency = 7200000
  /\ step_size = 10000
  /\ io = <<>>

\* C3: every command to CLK0 carries (frequency + 9,000,000) * 100 for the
\* frequency current when it is sent, and lies in [1.6e9, 1.62e9].
C3_VfoCommand ==
  /\ \A v \in Values(io, "CLK0") :
       /\ v = (frequency + 9000000) * 100
       /\ 1600000000 <= v /\ v <= 1620000000
  /\ clk0 # 0 => (1600000000 <= clk0 /\ clk0 <= 1620000000)

\* TuneDown from 7,100,000 with a 1 kHz step commanded 1,609,900,000.
C3_Witness ==
  /\ pc = "ptt"
  /\ evt.enc = "TuneDown"
  /\ step_size = 1000
  /\ frequency = 7099000
  /\ Values(io, "CLK0") = {1609900000}

StoredMagic == GetBytes(eeprom, EEPROM_MAGIC_ADDR, 2)

StoredFreq == GetBytes(eeprom, EEPROM_FREQ_ADDR, 4)

StoredIndex == GetBytes(eeprom, EEPROM_STEP_ADDR, 1)

C5_RoundTrip ==
  (pc = "display_begin" /\ saved # <<>>) =>
    <<frequency, step_index, step_size>> = saved

\* A retuned, re-stepped state came back after a power cycle.
C5_Witness ==
  /\ pc = "display_begin"
  /\ boots = 2
  /\ saved # <<>>
  /\ saved = <<7101000, 3, 10000>>
  /\ frequency = 7101000
  /\ step_index = 3
  /\ step_size = 10000

\* C6: handlePTT writes the transmit-enable output exactly when tx_mode
\* changes; an accepted PTT transition that leaves tx_mode as it was writes
\* nothing and leaves the dirty flag alone, so a PttAsserted accepted while
\* already transmitting produces no second write.
C6_TxEnableOnChange ==
  [][(pc = "ptt" /\ pc' = "sw") =>
       /\ ("TX_EN" \in Kinds(io')) <=> (tx_mode' # tx_mode)
       /\ (tx_mode' = tx_mode) =>
            /\ io' = <<>>
            /\ tx_en' = tx_en
            /\ display_update_needed' = display_update_needed
       /\ (evt'.ptt = "PttAsserted" /\ tx_mode) => io' = <<>>]_vars

\* Two PttAsserted were accepted in a row; the second wrote nothing.
C6_Witness ==
  /\ pc = "sw"
  /\ evt.ptt = "PttAsserted"
  /\ pttHist = <<"PttAsserted", "PttAsserted">>
  /\ tx_mode
  /\ tx_en = HIGH
  /\ io = <<>>

\* C7: every render after the first one since power-on is preceded, since
\* the previous render, by a change of frequency, step_size or tx_mode.
C7_NoRedundantRender ==
  [][("RENDER" \in Kinds(io') /\ nRender >= 1) => changed]_vars

\* C8: at the end of every loop iteration the dirty flag is clear, no change
\* is left unrendered, and the last rendered snapshot is the current
\* (frequency, step_size, tx_mode).
C8_NoMissedUpdate ==
  pc = "enc" =>
    /\ ~display_update_needed
    /\ ~changed
    /\ shown = <<frequency, step_size, tx_mode>>

\* An iteration that tuned, keyed and re-stepped ended with all of it shown.
C8_Witness ==
  /\ pc = "enc"
  /\ evt = [enc |-> "TuneUp", ptt |-> "PttAsserted", sw |-> "StepCycle"]
  /\ shown = <<frequency, step_size, TRUE>>
  /\ frequency # FREQ_DEFAULT
  /\ ~display_update_needed

\* C9: a StepCycle happens only on a high-to-low edge of the switch line and
\* only when more than 50 ms have passed since the last accepted StepCycle;
\* a press inside that window changes neither step nor storage.
C9_SwitchDebounce ==
  [][(pc = "sw" /\ pc' = "render") =>
       /\ (step_index' # step_index \/ evt'.sw = "StepCycle") =>
            /\ last_sw_state = HIGH
            /\ last_sw_state' = LOW
            /\ swAccept # -1 => clock - swAccept > 50
       /\ (swAccept # -1 /\ clock - swAccept <= 50) =>
            /\ step_index' = step_index
            /\ step_size' = step_size
            /\ eeprom' = eeprom
            /\ evt'.sw # "StepCycle"]_vars

\* A second press exactly 50 ms after an accepted one was ignored.
C9_Witness ==
  /\ pc = "render"
  /\ evt.sw = "bounce"
  /\ swAccept # -1
  /\ clock - swAccept = 50
  /\ prevStep # <<>>
  /\ io = <<>>

\* C10: an accepted StepCycle sets step_index to (step_index + 1) mod 4 and
\* step_size to the table entry; four StepCycles from any reachable state
\* give back the same step_index and step_size.
C10_StepCycle ==
  /\ (pc = "render" /\ evt.sw = "StepCycle") =>
       /\ step_index = (prevStep[1] + 1) % 4
       /\ step_size = step_sizes[step_index + 1]
  /\ LET s1 == StepCycle(step_index)
         s2 == StepCycle(s1.step_index)
         s3 == StepCycle(s2.step_index)
         s4 == StepCycle(s3.step_index)
     IN /\ Cardinality({step_index, s1.step_index, s2.step_index,
                        s3.step_index}) = 4
        /\ s4.step_index = step_index
        /\ s4.step_size = step_size

\* A StepCycle at the last table entry wrapped to the first.
C10_Witness ==
  /\ pc = "render"
  /\ evt.sw = "StepCycle"
  /\ prevStep = <<3, 10000>>
  /\ step_index = 0
  /\ step_size = 10

\* C11: in every state step_index is inside the table and step_size is the
\* table entry it selects, whatever bytes loadSettings found.
C11_StepConsistent ==
  /\ step_index \in 0..3
  /\ step_size = step_sizes[step_index + 1]

\* A record whose step byte is outside the table was loaded: the index fell
\* back to 2 and the step to 1 kHz, the valid frequency was kept.
C11_Witness ==
  /\ pc = "display_begin"
  /\ StoredMagic = 43605
  /\ StoredIndex = 255
  /\ frequency = 7050000
  /\ step_index = 2
  /\ step_size = 1000

InLoop == pc \in {"ready", "enc", "ptt", "sw", "render"}

\* C12: the persisted bytes change only in a step that accepts a StepCycle;
\* what a power cycle restores is the frequency of the last accepted
\* StepCycle, so tuning done after it is lost.
C12_SaveOnlyOnStepCycle ==
  /\ [][(eeprom' # eeprom \/ "EEPROM" \in Kinds(io')) =>
          /\ pc = "sw"
          /\ evt'.sw = "StepCycle"
          /\ step_index' # step_index]_vars
  /\ [](saved # <<>> =>
          /\ StoredFreq = saved[1]
          /\ pc = "display_begin" => frequency = saved[1])

\* Power was removed after tuning away from the saved frequency; the reboot
\* restored the saved one.
C12_Witness ==
  /\ pc = "display_begin"
  /\ boots = 2
  /\ saved # <<>>
  /\ offFreq # saved[1]
  /\ offFreq # -1
  /\ frequency = saved[1]

\* C13: the transmit-enable level equals tx_mode in every state, and until
\* a PTT event is accepted after a power-on tx_mode is false and the output
\* LOW.
C13_TxEnFollowsMode ==
  /\ tx_en = (IF tx_mode THEN HIGH ELSE LOW)
  /\ pttHist = <<>> => (~tx_mode /\ tx_en = LOW)

\* Keyed: an accepted PttAsserted raised the output.
C13_Witness ==
  /\ pc = "sw"
  /\ evt.ptt = "PttAsserted"
  /\ tx_mode
  /\ tx_en = HIGH
  /\ Values(io, "TX_EN") = {HIGH}

\* C14: CLK1 is commanded only by setupSi5351, once per power-on, with
\* 899,850,000; no step of the control loop commands it.
C14_BfoOnce ==
  /\ [][("CLK1" \in Kinds(io') \/ clk1' # clk1) =>
          \/ /\ pc = "si5351"
             /\ clk1 = 0
             /\ clk1' = 899850000
             /\ Values(io', "CLK1") = {899850000}
             /\ Cardinality({i \in DOMAIN io' : io'[i][1] = "CLK1"}) = 1
          \/ /\ pc' = "setup"
             /\ clk1' = 0
             /\ io' = <<>>]_vars
  /\ [](InLoop => clk1 = 899850000)

\* After startup a tuning step commanded CLK0 and left CLK1 alone.
C14_Witness ==
  /\ pc = "ptt"
  /\ Kinds(io) = {"CLK0"}
  /\ clk1 = 899850000
  /\ clk0 # 0

\* C15: when display or synthesizer initialisation fails the system halts:
\* the loop is never entered and frequency, step_index, tx_mode, the
\* transmit-enable output and the persisted record never change again; after
\* a display failure the synthesizer has not been commanded at all.
C15_HaltOnInitFailure ==
  /\ [](fault # "none" =>
          /\ pc = "halt"
          /\ ~tx_mode
          /\ tx_en = LOW
          /\ fault = "display" => (clk0 = 0 /\ clk1 = 0))
  /\ [][(fault # "none" /\ fault' # "none") =>
          UNCHANGED <<frequency, step_index, step_size, tx_mode, tx_en,
                      eeprom, clk0, clk1>>]_vars

\* The display failed after a stored frequency had been loaded.
C15_Witness ==
  /\ pc = "halt"
  /\ fault = "display"
  /\ frequency = 7200000
  /\ clk0 = 0
  /\ clk1 = 0
  /\ nRender = 0

\* C16: once setupSi5351 has run, the value last commanded to CLK0 is
\* (frequency + 9,000,000) * 100 for the current frequency, at every loop
\* iteration boundary and between the handlers.
C16_VfoNeverStale ==
  (InLoop \/ pc = "setup_display") => clk0 = (frequency + 9000000) * 100

\* The frequency restored by loadSettings was commanded during startup.
C16_Witness ==
  /\ pc = "ready"
  /\ StoredMagic = 43605
  /\ StoredFreq = 7199990
  /\ frequency = 7199990
  /\ clk0 = 1619999000

NextInLoop(p) ==
  IF p \in {"ready", "enc"} THEN "ptt"
  ELSE IF p = "ptt" THEN "sw"
  ELSE IF p = "sw" THEN "render"
  ELSE "enc"

\* C17: a loop iteration runs each handler once, in order, then renders at
\* most once: frequency moves by one step_size at most and only in
\* handleEncoder, tx_mode toggles only in handlePTT, step_index advances once
\* and the record is saved once only in handleEncoderSwitch, and the render
\* comes last. Steps that remove power end the iteration and are
\* not constrained.
C17_OnePerIteration ==
  [][(InLoop /\ pc' \notin {"setup", "off"}) =>
       /\ pc' = NextInLoop(pc)
       /\ frequency' # frequency =>
            /\ pc \in {"ready", "enc"}
            /\ frequency' \in {frequency + step_size, frequency - step_size}
       /\ tx_mode' # tx_mode => pc = "ptt"
       /\ step_index' # step_index =>
            /\ pc = "sw"
            /\ step_index' = (step_index + 1) % 4
       /\ "EEPROM" \in Kinds(io') => (pc = "sw" /\ Len(io') = 1)
       /\ "RENDER" \in Kinds(io') => (pc = "render" /\ Len(io') = 1)]_vars

\* One iteration took a tick, a PTT press and a switch press, and rendered once.
C17_Witness ==
  /\ pc = "enc"
  /\ evt = [enc |-> "TuneDown", ptt |-> "PttAsserted", sw |-> "StepCycle"]
  /\ Len(io) = 1
  /\ Kinds(io) = {"RENDER"}
  /\ saved # <<>>

\* C18: each line is debounced against its own timestamp and last level:
\* handlePTT leaves the switch's memory alone and accepts an edge whatever
\* the switch did, handleEncoderSwitch leaves the PTT's memory alone and
\* accepts a press whatever the PTT did.
C18_IndependentDebounce ==
  [][/\ (pc = "ptt" /\ pc' = "sw") =>
          /\ UNCHANGED <<last_enc_sw_time, last_sw_state>>
          /\ (evt'.ptt # "none") <=>
               (last_ptt_state' # last_ptt_state /\ clock' - last_ptt_time > 50)
     /\ (pc = "sw" /\ pc' = "render") =>
          /\ UNCHANGED <<last_ptt_time, last_ptt_state>>
          /\ (evt'.sw = "StepCycle") <=>
               /\ last_sw_state = HIGH
               /\ last_sw_state' = LOW
               /\ clock - last_enc_sw_time > 50]_vars

\* A PTT press in the iteration right after an accepted switch press, with no
\* time in between, was accepted.
C18_Witness ==
  /\ pc = "sw"
  /\ evt.ptt = "PttAsserted"
  /\ tx_mode
  /\ swAccept = 51
  /\ clock = 51
  /\ last_ptt_time = 51

\* C19: a tick is applied in the handleEncoder call that receives it,
\* however recent the last accepted switch or PTT transition, and the call
\* changes no debounce state.
C19_TicksNotDebounced ==
  [][(pc \in {"ready", "enc"} /\ pc' = "ptt") =>
       /\ UNCHANGED <<clock, last_enc_sw_time, last_ptt_time, last_ptt_state,
                      last_sw_state>>
       /\ (evt'.enc = "TuneUp" /\ frequency + step_size <= 7200000) =>
            /\ frequency' = frequency + step_size
            /\ "CLK0" \in Kinds(io')
       /\ (evt'.enc = "TuneDown" /\ frequency - step_size >= 7000000) =>
            /\ frequency' = frequency - step_size
            /\ "CLK0" \in Kinds(io')]_vars

\* A tick was applied in the iteration right after an accepted switch press
\* and an accepted PTT press, with no time in between.
C19_Witness ==
  /\ pc = "ptt"
  /\ evt.enc = "TuneUp"
  /\ "CLK0" \in Kinds(io)
  /\ swAccept = clock
  /\ last_ptt_time = clock
  /\ clock > 0

\* C20: tx_mode tracks the PTT line: if from some poll on every poll reads
\* the line at one level, then from some point on tx_mode and the
\* transmit-enable output equal "PTT is LOW" for that level.
C20_TxTracksPtt ==
  /\ <>[](last_ptt_state = HIGH) => <>[](~tx_mode /\ tx_en = LOW)
  /\ <>[](last_ptt_state = LOW) => <>[](tx_mode /\ tx_en = HIGH)

\* C21: when power is lost between two of the three field writes of
\* saveSettings, the next loadSettings restores the defaults, or the
\* (frequency, step_index) the device held just before the StepCycle, or the
\* pair it held just after it.
C21_InterruptedSave ==
  (pc = "display_begin" /\ cut # <<>>) =>
    <<frequency, step_index>> \in
      {<<7100000, 2>>, <<cut[1], cut[2]>>, <<cut[1], cut[3]>>}

\* Power was lost after the frequency write of a record with a valid magic:
\* the retuned frequency came back with the step index of before the press.
C21_Witness ==
  /\ pc = "display_begin"
  /\ cut # <<>>
  /\ StoredMagic = 43605
  /\ StoredFreq = cut[1]
  /\ StoredIndex = cut[2]
  /\ cut[1] # 7100000
  /\ <<frequency, step_index>> = <<cut[1], cut[2]>>

\* C22: each event touches only its own part of the state. A StepCycle
\* leaves frequency and tx_mode alone and commands no synthesizer channel;
\* a PTT transition leaves frequency, step_index and step_size alone,
\* commands no synthesizer channel and writes nothing to storage; a tick
\* leaves step_index, step_size and tx_mode alone and does not write the
\* transmit-enable output; a render changes none of the four.
C22_FrameEffects ==
  [][/\ (pc = "sw" /\ evt'.sw = "StepCycle") =>
          /\ UNCHANGED <<frequency, tx_mode, tx_en, clk0, clk1>>
          /\ Kinds(io') \cap {"CLK0", "CLK1", "TX_EN"} = {}
     /\ (pc = "ptt" /\ evt'.ptt \in {"PttAsserted", "PttReleased"}) =>
          /\ UNCHANGED <<frequency, step_index, step_size, clk0, clk1, eeprom>>
          /\ Kinds(io') \cap {"CLK0", "CLK1", "EEPROM"} = {}
     /\ (pc \in {"ready", "enc"} /\ evt'.enc \in {"TuneUp", "TuneDown"}) =>
          /\ UNCHANGED <<step_index, step_size, tx_mode, tx_en, eeprom>>
          /\ Kinds(io') \cap {"TX_EN", "EEPROM"} = {}
     /\ "RENDER" \in Kinds(io') =>
          UNCHANGED <<frequency, step_index, step_size, tx_mode>>]_vars

\* A StepCycle was taken while transmitting on a retuned frequency: both
\* survived it and only the record was written.
C22_Witness ==
  /\ pc = "render"
  /\ evt.sw = "StepCycle"
  /\ evt.ptt = "none"
  /\ tx_mode
  /\ tx_en = HIGH
  /\ frequency # 7100000
  /\ clk0 = (frequency + 9000000) * 100
  /\ Kinds(io) = {"EEPROM"}

\* C23: tuning steps are reversible. With no StepCycle in between, the
\* opposite tick in the iteration right after an applied tick is applied too
\* and brings frequency back to what it was before the first one.
C23_TuneReversible ==
  [][(/\ pc = "enc"
      /\ pc' = "ptt"
      /\ tuned # <<>>
      /\ evt.sw # "StepCycle"
      /\ \/ (tuned[2] = "TuneUp" /\ evt'.enc = "TuneDown")
         \/ (tuned[2] = "TuneDown" /\ evt'.enc = "TuneUp")) =>
       /\ frequency' # frequency
       /\ frequency' = tuned[1]
       /\ clk0' = (tuned[1] + 9000000) * 100]_vars

\* From the upper band edge a TuneDown by 10 kHz and then a TuneUp: the
\* second tick was applied and the frequency is the band edge again.
C23_Witness ==
  /\ pc = "ptt"
  /\ evt.enc = "TuneUp"
  /\ tuned = <<7190000, "TuneUp">>
  /\ frequency = 7200000
  /\ step_size = 10000
  /\ clk0 = 1620000000
  /\ nRender = 2

\* C24: on a device that starts without a valid record, and whose record is
\* written by saveSettings only, frequency is a multiple of 10 Hz in every
\* state, and so is every frequency that was rendered and every valid
\* frequency in the record.
C24_TenHertzGrid ==
  /\ frequency % 10 = 0
  /\ shown # <<>> => shown[1] % 10 = 0
  /\ StoredMagic = 43605 => (InBand(StoredFreq) => StoredFreq % 10 = 0)

\* Tuned by one 10 Hz step after two StepCycles saved the record.
C24_Witness ==
  /\ pc = "ptt"
  /\ step_size = 10
  /\ frequency = 7100010
  /\ StoredMagic = 43605
  /\ StoredFreq = 7100000

====
